---- MODULE Spec2Model ----
(***************************************************************************)
(* NodeVis.py: loading of per-sensor quaternion timelines (CSV/XLSX and    *)
(* STO), the start-up checks of main, and the frame update that dispatches *)
(* one 4x4 transform per sensor node.                                      *)
(*                                                                         *)
(* Text is a sequence of one-character strings.  A missing value (pandas   *)
(* NaN) is the value NaN below.  Real numbers are exact rationals          *)
(* <<numerator, denominator>> in lowest terms.                             *)
(***************************************************************************)
EXTENDS Integers, Sequences, FiniteSets, TLC

\* ------------------------------------------------------------------ bounds
MaxLen == 8
MaxRows == 2
MaxIdx == 3

\* --------------------------------------------------------------- text model
Digits == {"0", "1", "2"}
Alphabet == {"1", "2", ",", " ", "x"}
NaN == <<"NaN">>

DigitVal(c) == CASE c = "0" -> 0 [] c = "1" -> 1 [] c = "2" -> 2 [] OTHER -> 0

\* pd.isna(value)
IsNa(v) == v = NaN

RECURSIVE Strip(_)
\* str.strip(): leading and trailing blanks removed
Strip(s) ==
    IF s = <<>> THEN s
    ELSE IF Head(s) = " " THEN Strip(Tail(s))
    ELSE IF s[Len(s)] = " " THEN Strip(SubSeq(s, 1, Len(s) - 1))
    ELSE s

RECURSIVE SplitOn(_, _)
\* str.split(sep) with an explicit one-character separator: empty parts kept
SplitOn(s, sep) ==
    IF \A k \in 1..Len(s) : s[k] # sep THEN <<s>>
    ELSE LET k == CHOOSE j \in 1..Len(s) :
                      s[j] = sep /\ \A m \in 1..(j - 1) : s[m] # sep
         IN  <<SubSeq(s, 1, k - 1)>> \o SplitOn(SubSeq(s, k + 1, Len(s)), sep)

\* str.split() without argument: runs of blanks separate, no empty parts
SplitWs(s) == SelectSeq(SplitOn(s, " "), LAMBDA p : p # <<>>)

\* str.count(",")
CountCommas(s) == Cardinality({k \in 1..Len(s) : s[k] = ","})

\* float(part) succeeds
IsFloat(tok) == tok # <<>> /\ \A k \in 1..Len(tok) : tok[k] \in Digits

RECURSIVE FloatOf(_)
\* float(part): the decimal value of the digits
FloatOf(tok) ==
    IF tok = <<>> THEN 0
    ELSE 10 * FloatOf(SubSeq(tok, 1, Len(tok) - 1)) + DigitVal(tok[Len(tok)])

MapSeq(f(_), s) == [k \in 1..Len(s) |-> f(s[k])]

\* _parse_quaternion_string with the length test loosened to "more than four"
ParseQuaternionStringLooseCount(raw_value) ==
    IF IsNa(raw_value) THEN [ok |-> FALSE, err |-> "nan"]
    ELSE LET raw_text == Strip(raw_value)
             parts == IF \E k \in 1..Len(raw_text) : raw_text[k] = ","
                      THEN MapSeq(Strip, SplitOn(raw_text, ","))
                      ELSE SplitWs(raw_text)
         IN  IF raw_text = <<>> THEN [ok |-> FALSE, err |-> "empty"]
             ELSE IF Len(parts) > 4 THEN [ok |-> FALSE, err |-> "count"]
             ELSE IF \E k \in 1..Len(parts) : ~IsFloat(parts[k])
                  THEN [ok |-> FALSE, err |-> "non-numeric"]
             ELSE [ok |-> TRUE, val |-> MapSeq(FloatOf, parts)]

\* _parse_quaternion_string: the array returned, or the ValueError raised
ParseQuaternionString(raw_value) ==
    IF IsNa(raw_value) THEN [ok |-> FALSE, err |-> "nan"]
    ELSE LET raw_text == Strip(raw_value)
             parts == IF \E k \in 1..Len(raw_text) : raw_text[k] = ","
                      THEN MapSeq(Strip, SplitOn(raw_text, ","))
                      ELSE SplitWs(raw_text)
         IN  IF raw_text = <<>> THEN [ok |-> FALSE, err |-> "empty"]
             ELSE IF Len(parts) # 4 THEN [ok |-> FALSE, err |-> "count"]
             ELSE IF \E k \in 1..Len(parts) : ~IsFloat(parts[k])
                  THEN [ok |-> FALSE, err |-> "non-numeric"]
             ELSE [ok |-> TRUE, val |-> MapSeq(FloatOf, parts)]

\* ------------------------------------------------------------ input files
\* A column name is a sequence of name pieces, so that "Quat1_A" is
\* <<"Quat1_", "A">> and "Quat1_AQuat1_B" is <<"Quat1_", "A", "Quat1_", "B">>.
Col(k, n) == <<k, n>>

QuatCols(n) == <<Col("Quat1_", n), Col("Quat2_", n), Col("Quat3_", n), Col("Quat4_", n)>>

TabHeaders ==
    { QuatCols("A"),
      <<Col("Quat1_", "B"), Col("Quat1_", "A"), Col("Quat4_", "A"), Col("Quat3_", "A"),
        Col("Quat2_", "A"), Col("Quat2_", "B"), Col("Quat3_", "B"), Col("Quat4_", "B")>>,
      <<<<"time">>, Col("Quat1_", "A"), Col("Quat2_", "A"), Col("Quat3_", "A")>>,
      <<<<"time">>, <<"Quat2_", "A">>>>,
      QuatCols("A") \o <<<<"Quat1_", "A", "Quat1_", "B">>>> }

\* What one data row holds for one sensor: four cells, in Quat1..Quat4 order.
TabRowChoices ==
    { <<<<"1">>, <<"0">>, <<"0">>, <<"0">>>>,
      <<<<"1">>, <<"2">>, <<"0">>, <<"0">>>>,
      <<NaN, NaN, NaN, NaN>>,
      <<<<"1">>, <<"x">>, <<"0">>, <<"0">>>> }

\* The second sensor of a file holds fewer kinds of rows, to keep the files few.
TabRowChoicesB ==
    { <<<<"0">>, <<"0">>, <<"1">>, <<"0">>>>,
      <<<<"1">>, <<"x">>, <<"0">>, <<"0">>>> }

PieceIndex(k) == CASE k = "Quat1_" -> 1 [] k = "Quat2_" -> 2 [] k = "Quat3_" -> 3
                   [] k = "Quat4_" -> 4 [] OTHER -> 0

\* The cell of column c in a row whose sensors A and B hold qa and qb.
TabCell(c, qa, qb) ==
    IF Len(c) = 2 /\ PieceIndex(c[1]) > 0 /\ c[2] = "A" THEN qa[PieceIndex(c[1])]
    ELSE IF Len(c) = 2 /\ PieceIndex(c[1]) > 0 /\ c[2] = "B" THEN qb[PieceIndex(c[1])]
    ELSE <<"0">>

TabRows(h) ==
    { [c \in 1..Len(h) |-> TabCell(h[c], qa, qb)] : qa \in TabRowChoices, qb \in TabRowChoicesB }

StoHeaders ==
    { <<<<"time">>, <<"imu1">>>>,
      <<<<"imu1">>, <<"imu2">>>>,
      <<<<"imu1">>, <<"TIME">>>>,
      <<<<"time">>>> }

StoCells ==
    { <<"1", ",", "0", ",", "0", ",", "0">>,
      <<"1", ",", "0", ",", "0", ",", "x">>,
      <<"1", ",", "0">>,
      NaN }

\* The cells of a second sensor column.
StoCellsB ==
    { <<"0", ",", "1", ",", "0", ",", "0">>,
      <<"1", ",", "0", ",", "0", ",", "x">> }

StoTimeCells == { <<"0">>, <<"0", ",", "0", ",", "0", ",", "1">> }

StoRows(h) ==
    { r \in [1..Len(h) -> StoCells \cup StoCellsB \cup StoTimeCells] :
        \A c \in 1..Len(h) : IF h[c] = <<"TIME">> THEN r[c] \in StoTimeCells
                             ELSE IF h[c] = <<"time">> THEN r[c] = <<"0">>
                             ELSE IF h[c] = <<"imu2">> THEN r[c] \in StoCellsB
                             ELSE r[c] \in StoCells }

RowSeqs(rowset) == UNION {[1..n -> rowset] : n \in 0..MaxRows}

Files ==
    { [exists |-> FALSE, suffix |-> ".csv", endheader |-> FALSE,
       columns |-> QuatCols("A"), rows |-> <<>>],
      [exists |-> TRUE, suffix |-> ".txt", endheader |-> FALSE,
       columns |-> QuatCols("A"), rows |-> <<>>],
      [exists |-> TRUE, suffix |-> ".STO", endheader |-> FALSE,
       columns |-> <<<<"time">>, <<"imu1">>>>, rows |-> <<>>] }
    \cup UNION { { [exists |-> TRUE, suffix |-> sfx, endheader |-> FALSE,
                    columns |-> h, rows |-> rs] : rs \in RowSeqs(TabRows(h)) }
                 : h \in TabHeaders, sfx \in {".csv"} }
    \cup { [exists |-> TRUE, suffix |-> ".XLSX", endheader |-> FALSE,
            columns |-> QuatCols("A"), rows |-> rs] : rs \in RowSeqs(TabRows(QuatCols("A"))) }
    \cup UNION { { [exists |-> TRUE, suffix |-> ".sto", endheader |-> TRUE,
                    columns |-> h, rows |-> rs] : rs \in RowSeqs(StoRows(h)) }
                 : h \in StoHeaders }

\* str.lower() of a file suffix and of a column name
LowerSuffix(sfx) == CASE sfx = ".STO" -> ".sto" [] sfx = ".XLSX" -> ".xlsx" [] OTHER -> sfx

LowerPiece(p) == CASE p = "TIME" -> "time" [] OTHER -> p

LowerName(c) == MapSeq(LowerPiece, c)

Column(f, c) == [r \in 1..Len(f.rows) |-> f.rows[r][c]]

ColumnIndex(f, name) == CHOOSE c \in 1..Len(f.columns) : f.columns[c] = name

HasColumn(f, name) == \E c \in 1..Len(f.columns) : f.columns[c] = name

\* ----------------------------------------------------------------- loaders
\* An array element: a float, a NaN, or a Python object that is no number.
Num(v) == <<"num", v>>

NanElem == <<"nan", 0>>

StrElem == <<"str", 0>>

\* DataFrame.to_numpy() of one cell: empty cells are NaN, numeric text is a
\* number (or converts to one), other text stays an object
ToNumpy(cell) ==
    IF IsNa(cell) THEN NanElem
    ELSE IF IsFloat(cell) THEN Num(FloatOf(cell))
    ELSE StrElem

Ok(names, frames) == [ok |-> TRUE, names |-> names, frames |-> frames]

Raise(kind, col) == [ok |-> FALSE, err |-> kind, column |-> col]

\* column.split("Quat1_")[1]
SensorNameOf(column) == SplitOn(column, "Quat1_")[2]

\* [f"Quat1_{name}", f"Quat2_{name}", f"Quat3_{name}", f"Quat4_{name}"]
SensorColumns(name) ==
    <<<<"Quat1_">> \o name, <<"Quat2_">> \o name, <<"Quat3_">> \o name, <<"Quat4_">> \o name>>

\* _load_csv_or_excel
LoadCsvOrExcel(f) ==
    LET quat1 == SelectSeq(f.columns, LAMBDA c : c # <<>> /\ c[1] = "Quat1_")
        sensor_names == MapSeq(SensorNameOf, quat1)
        missing(name) == \E k \in 1..4 : ~HasColumn(f, SensorColumns(name)[k])
        frame(name) ==
            [r \in 1..Len(f.rows) |->
                [k \in 1..4 |-> ToNumpy(f.rows[r][ColumnIndex(f, SensorColumns(name)[k])])]]
    IN  IF sensor_names = <<>> THEN Raise("NoSensors", <<>>)
        ELSE IF \E i \in 1..Len(sensor_names) : missing(sensor_names[i])
             THEN Raise("KeyError", <<>>)
        ELSE Ok(sensor_names, MapSeq(frame, sensor_names))

\* the first-value test of _load_sto applied to any populated value of the column
StoLooksLikeQuaternionAnyRow(valid_values) ==
    \E k \in 1..Len(valid_values) :
        CountCommas(valid_values[k]) = 3 \/ Len(SplitWs(valid_values[k])) = 4

\* not (valid_values[0].count(",") != 3 and len(valid_values[0].split()) != 4)
StoLooksLikeQuaternion(valid_values) ==
    ~(CountCommas(valid_values[1]) # 3 /\ Len(SplitWs(valid_values[1])) # 4)

RECURSIVE StoScan(_, _, _, _)
\* the column loop of _load_sto from column c on
StoScan(f, c, sensor_names, frames) ==
    IF c > Len(f.columns)
    THEN IF frames = <<>> THEN Raise("NoQuaternionColumns", <<>>)
         ELSE Ok(sensor_names, frames)
    ELSE LET column == Strip(f.columns[c])
             column_series == Column(f, c)
             valid_values ==
                 MapSeq(Strip, SelectSeq(column_series,
                                         LAMBDA v : ~IsNa(v) /\ Strip(v) # <<>>))
             quaternions == MapSeq(ParseQuaternionString, column_series)
         IN  IF LowerName(column) = <<"time">> THEN StoScan(f, c + 1, sensor_names, frames)
             ELSE IF valid_values = <<>> THEN StoScan(f, c + 1, sensor_names, frames)
             ELSE IF ~StoLooksLikeQuaternion(valid_values)
                  THEN StoScan(f, c + 1, sensor_names, frames)
             ELSE IF \E r \in 1..Len(quaternions) : ~quaternions[r].ok
                  THEN Raise("InvalidColumn", column)
             ELSE StoScan(f, c + 1, Append(sensor_names, column),
                          Append(frames, [r \in 1..Len(quaternions) |->
                                             [k \in 1..4 |-> Num(quaternions[r].val[k])]]))

\* _load_sto
LoadSto(f) ==
    IF ~f.endheader THEN Raise("NoEndheader", <<>>)
    ELSE StoScan(f, 1, <<>>, <<>>)

\* _load_sensor_data
LoadSensorData(f) ==
    LET suffix == LowerSuffix(f.suffix)
    IN  IF suffix \in {".csv", ".xlsx"} THEN LoadCsvOrExcel(f)
        ELSE IF suffix = ".sto" THEN LoadSto(f)
        ELSE Raise("InvalidFileType", <<>>)

\* ---------------------------------------------------------- frame transform
Abs(n) == IF n < 0 THEN -n ELSE n

RECURSIVE GCD(_, _)
GCD(a, b) == IF b = 0 THEN a ELSE GCD(b, a % b)

\* the rational n/d in lowest terms, d > 0
Rat(n, d) == LET g == GCD(Abs(n), d) IN <<n \div g, d \div g>>

Zero == <<0, 1>>

One == <<1, 1>>

\* offset_spacing = 0.2
offset_spacing == Rat(2, 10)

RatTimesInt(q, i) == Rat(q[1] * i, q[2])

RatPlus(p, q) == Rat(p[1] * q[2] + q[1] * p[2], p[2] * q[2])

\* R.from_quat(...) raises: an element that is no number, or a zero norm
FromQuatRaises(rotate_data) ==
    \/ \E k \in 1..4 : rotate_data[k][1] # "num"
    \/ \A k \in 1..4 : rotate_data[k][2] = 0

\* R.from_quat(rotate_data, scalar_first=True).as_matrix(): the quaternion is
\* normalised, then turned into a 3x3 rotation
AsMatrix(rotate_data) ==
    LET w == rotate_data[1][2]
        x == rotate_data[2][2]
        y == rotate_data[3][2]
        z == rotate_data[4][2]
        n == w * w + x * x + y * y + z * z
    IN  << <<Rat(w*w + x*x - y*y - z*z, n), Rat(2 * (x*y - w*z), n), Rat(2 * (x*z + w*y), n)>>,
           <<Rat(2 * (x*y + w*z), n), Rat(w*w - x*x + y*y - z*z, n), Rat(2 * (y*z - w*x), n)>>,
           <<Rat(2 * (x*z - w*y), n), Rat(2 * (y*z + w*x), n), Rat(w*w - x*x - y*y + z*z, n)>> >>

Identity4 ==
    << <<One, Zero, Zero, Zero>>, <<Zero, One, Zero, Zero>>,
       <<Zero, Zero, One, Zero>>, <<Zero, Zero, Zero, One>> >>

\* rot_mat4x4 of _update_frame for node i (counted from 0)
NodeMatrix(i, rotate_data) ==
    LET rot_mat == AsMatrix(rotate_data)
    IN  << <<rot_mat[1][1], rot_mat[1][2], rot_mat[1][3], RatTimesInt(offset_spacing, i)>>,
           <<rot_mat[2][1], rot_mat[2][2], rot_mat[2][3], Zero>>,
           <<rot_mat[3][1], rot_mat[3][2], rot_mat[3][3], Zero>>,
           <<Zero, Zero, Zero, One>> >>

\* ------------------------------------------------------------------- state
VARIABLES
    raw, parsed,            \* _parse_quaternion_string: its argument and its result
    file,                   \* the data file named on the command line
    pc,                     \* where main is: start, loaded, scene, playing, exit
    error,                  \* the exception that ended the program, or "none"
    sensor_names,           \* main's sensor_names
    loaded_frames,          \* main's loaded_frames
    frames_list,            \* the global frames_list
    nframes,                \* main's nframes
    sensor_assemblies,      \* the user matrix of each node of sensor_assemblies
    text_actor,             \* the frame number text_actor shows
    camera_fp,              \* the active camera's focal point
    spin_center,            \* the position of spin_center_actor
    scene_entered,          \* _init_3D_scene has been called
    last_op,                \* the handler that ran last
    last_idx,               \* the argument of the last _update_frame call
    raised,                 \* the last _update_frame call raised
    dispatched,             \* the SetUserMatrix calls of the last _update_frame call
    repeated,               \* the last two handlers were seeks to the same index
    reference               \* the node matrices had only in-range seeks been made

pvars == <<raw, parsed>>

mvars == <<file, pc, error, sensor_names, loaded_frames, frames_list, nframes,
           sensor_assemblies, text_actor, camera_fp, spin_center, scene_entered,
           last_op, last_idx, raised, dispatched, repeated, reference>>

vars == <<pvars, mvars>>

NoIdx == 0 - 9

FocalDefault == <<"default", 0>>

FocalPanned == <<"panned", 0>>

SeekRange == (-1)..MaxIdx

Keys == 0..3

\* ------------------------------------------------------------ _update_frame
RECURSIVE UpdateLoopAccumulating(_, _, _, _)
\* the node loop adding the node's offset to the translation it already has
UpdateLoopAccumulating(idx, i, assemblies, log) ==
    IF i > Len(assemblies) THEN [assemblies |-> assemblies, log |-> log, raised |-> FALSE]
    ELSE IF i > Len(frames_list)
         THEN [assemblies |-> assemblies, log |-> log, raised |-> TRUE]
    ELSE LET frames == frames_list[i]
         IN  IF idx < 0 \/ idx >= Len(frames)
             THEN UpdateLoopAccumulating(idx, i + 1, assemblies, log)
             ELSE IF FromQuatRaises(frames[idx + 1])
                  THEN [assemblies |-> assemblies, log |-> log, raised |-> TRUE]
             ELSE LET fresh == NodeMatrix(i - 1, frames[idx + 1])
                      temp_matrix ==
                          [fresh EXCEPT ![1][4] = RatPlus(assemblies[i][1][4], fresh[1][4])]
                  IN  UpdateLoopAccumulating(idx, i + 1,
                                 [assemblies EXCEPT ![i] = temp_matrix],
                                 Append(log, <<i - 1, temp_matrix>>))

RECURSIVE UpdateLoopClamping(_, _, _, _)
\* the node loop with the index clamped into the timeline
UpdateLoopClamping(idx, i, assemblies, log) ==
    IF i > Len(assemblies) THEN [assemblies |-> assemblies, log |-> log, raised |-> FALSE]
    ELSE IF i > Len(frames_list)
         THEN [assemblies |-> assemblies, log |-> log, raised |-> TRUE]
    ELSE LET frames == frames_list[i]
             at == IF idx < 0 THEN 0 ELSE IF idx >= Len(frames) THEN Len(frames) - 1 ELSE idx
         IN  IF Len(frames) = 0
             THEN UpdateLoopClamping(idx, i + 1, assemblies, log)
             ELSE IF FromQuatRaises(frames[at + 1])
                  THEN [assemblies |-> assemblies, log |-> log, raised |-> TRUE]
             ELSE LET temp_matrix == NodeMatrix(i - 1, frames[at + 1])
                  IN  UpdateLoopClamping(idx, i + 1,
                                 [assemblies EXCEPT ![i] = temp_matrix],
                                 Append(log, <<i - 1, temp_matrix>>))

RECURSIVE UpdateLoop(_, _, _, _)
\* the node loop of _update_frame from node i on (nodes counted from 1 here,
\* from 0 in the source): the matrices set, the calls made, whether it raised
UpdateLoop(idx, i, assemblies, log) ==
    IF i > Len(assemblies) THEN [assemblies |-> assemblies, log |-> log, raised |-> FALSE]
    ELSE IF i > Len(frames_list)
         THEN [assemblies |-> assemblies, log |-> log, raised |-> TRUE]
    ELSE LET frames == frames_list[i]
         IN  IF idx < 0 \/ idx >= Len(frames)
             THEN UpdateLoop(idx, i + 1, assemblies, log)
             ELSE IF FromQuatRaises(frames[idx + 1])
                  THEN [assemblies |-> assemblies, log |-> log, raised |-> TRUE]
             ELSE LET temp_matrix == NodeMatrix(i - 1, frames[idx + 1])
                  IN  UpdateLoop(idx, i + 1,
                                 [assemblies EXCEPT ![i] = temp_matrix],
                                 Append(log, <<i - 1, temp_matrix>>))

\* _update_frame(idx) on the scene as it is: the loop, then the overlay text,
\* then update_spin_center; an exception leaves the rest undone
UpdateFrame(idx) ==
    LET r == UpdateLoop(idx, 1, sensor_assemblies, <<>>)
    IN  /\ sensor_assemblies' = r.assemblies
        /\ dispatched' = r.log
        /\ raised' = r.raised
        /\ last_idx' = idx
        /\ text_actor' = IF r.raised THEN text_actor ELSE idx
        /\ spin_center' = IF r.raised THEN spin_center ELSE camera_fp

InRange(idx) == 0 <= idx /\ idx < nframes

\* the same call on the reference nodes, made for in-range indices only
UpdateReference(idx) ==
    reference' = IF InRange(idx) THEN UpdateLoop(idx, 1, reference, <<>>).assemblies
                 ELSE reference

\* ------------------------------------------------------------------ actions
Unset == <<>>

InitMain ==
    /\ pc = "start"
    /\ error = <<"none", <<>>>>
    /\ sensor_names = Unset
    /\ loaded_frames = Unset
    /\ frames_list = <<>>
    /\ nframes = 0
    /\ sensor_assemblies = <<>>
    /\ text_actor = NoIdx
    /\ camera_fp = FocalDefault
    /\ spin_center = FocalDefault
    /\ scene_entered = FALSE
    /\ last_op = "none"
    /\ last_idx = NoIdx
    /\ raised = FALSE
    /\ dispatched = <<>>
    /\ repeated = FALSE
    /\ reference = <<>>

Init ==
    /\ raw = NaN
    /\ parsed = [ok |-> FALSE, err |-> "idle"]
    /\ file \in Files
    /\ InitMain

InitParse ==
    /\ \E n \in 0..MaxLen : raw \in [1..n -> Alphabet] \cup {NaN}
    /\ parsed = [ok |-> FALSE, err |-> "pending"]
    /\ file = CHOOSE f \in Files : ~f.exists
    /\ InitMain

\* one call of _parse_quaternion_string
CallParse ==
    /\ parsed.ok = FALSE /\ parsed.err = "pending"
    /\ parsed' = ParseQuaternionString(raw)
    /\ UNCHANGED <<raw, mvars>>

NextParse == CallParse

SpecParse == InitParse /\ [][NextParse]_vars

\* an uncaught exception ends the program; it names a column when it has one
Exit(kind, column) ==
    /\ pc' = "exit"
    /\ error' = <<kind, column>>

\* main up to and including the "not loaded_frames" test
MainLoad ==
    /\ pc = "start"
    /\ LET r == LoadSensorData(file)
       IN  IF ~file.exists
           THEN Exit("FileNotFoundError", <<>>) /\ UNCHANGED <<sensor_names, loaded_frames>>
           ELSE IF ~r.ok
           THEN Exit(r.err, r.column) /\ UNCHANGED <<sensor_names, loaded_frames>>
           ELSE IF r.frames = <<>>
           THEN Exit("NoSensorData", <<>>) /\ UNCHANGED <<sensor_names, loaded_frames>>
           ELSE /\ pc' = "loaded"
                /\ sensor_names' = r.names
                /\ loaded_frames' = r.frames
                /\ UNCHANGED error
    /\ last_op' = "load"
    /\ UNCHANGED <<pvars, file, frames_list, nframes, sensor_assemblies, text_actor,
                   camera_fp, spin_center, scene_entered, last_idx, raised, dispatched,
                   repeated, reference>>

\* main: the frame_counts test and the assignment of frames_list
MainValidate ==
    /\ pc = "loaded"
    /\ LET frame_counts == {Len(loaded_frames[i]) : i \in 1..Len(loaded_frames)}
       IN  IF Cardinality(frame_counts) # 1
           THEN Exit("InconsistentFrameCount", <<>>) /\ UNCHANGED <<frames_list, nframes>>
           ELSE /\ frames_list' = loaded_frames
                /\ nframes' = CHOOSE n \in frame_counts : TRUE
                /\ pc' = "scene"
                /\ UNCHANGED error
    /\ last_op' = "validate"
    /\ UNCHANGED <<pvars, file, sensor_names, loaded_frames, sensor_assemblies, text_actor,
                   camera_fp, spin_center, scene_entered, last_idx, raised, dispatched,
                   repeated, reference>>

\* _init_3D_scene: one node per sensor, "Frame: 0", the spin centre at the
\* camera's focal point, then _update_frame(0) and the event loop
InitScene ==
    /\ pc = "scene"
    /\ scene_entered' = TRUE
    /\ LET nsensors == Len(sensor_names)
           fresh == [i \in 1..nsensors |-> Identity4]
           r == UpdateLoop(0, 1, fresh, <<>>)
       IN  /\ sensor_assemblies' = r.assemblies
           /\ reference' = IF 0 < nframes THEN r.assemblies ELSE fresh
           /\ dispatched' = r.log
           /\ raised' = r.raised
           /\ IF r.raised THEN Exit("ValueError", <<>>) ELSE pc' = "playing" /\ UNCHANGED error
    /\ text_actor' = 0
    /\ camera_fp' = FocalDefault
    /\ spin_center' = FocalDefault
    /\ last_idx' = 0
    /\ last_op' = "init"
    /\ repeated' = FALSE
    /\ UNCHANGED <<pvars, file, sensor_names, loaded_frames, frames_list, nframes>>

\* _slider_callback: idx is whatever the slider reports; an exception in an
\* observer is reported by the toolkit and the event loop goes on
SliderCallback ==
    /\ pc = "playing"
    /\ \E idx \in SeekRange :
        /\ UpdateFrame(idx)
        /\ UpdateReference(idx)
        /\ repeated' = (last_op = "seek" /\ last_idx = idx)
    /\ last_op' = "seek"
    /\ UNCHANGED <<pvars, file, pc, error, sensor_names, loaded_frames, frames_list,
                   nframes, camera_fp, scene_entered>>

\* zoom_to_node: Ctrl+digit moves the camera to that node and the spin centre
\* with it; any other key does nothing
ZoomToNode ==
    /\ pc = "playing"
    /\ \E control \in BOOLEAN, key \in Keys :
        LET idx == key - 1
        IN  IF control /\ 0 <= idx /\ idx < Len(sensor_assemblies)
            THEN /\ camera_fp' = <<"center", idx>>
                 /\ spin_center' = <<"center", idx>>
            ELSE UNCHANGED <<camera_fp, spin_center>>
    /\ last_op' = "key"
    /\ repeated' = FALSE
    /\ UNCHANGED <<pvars, file, pc, error, sensor_names, loaded_frames, frames_list,
                   nframes, sensor_assemblies, text_actor, scene_entered, last_idx,
                   raised, dispatched, reference>>

\* the trackball style moves the camera's focal point
CameraMoved ==
    /\ pc = "playing"
    /\ camera_fp' = FocalPanned
    /\ last_op' = "camera"
    /\ repeated' = FALSE
    /\ UNCHANGED <<pvars, file, pc, error, sensor_names, loaded_frames, frames_list,
                   nframes, sensor_assemblies, text_actor, spin_center, scene_entered,
                   last_idx, raised, dispatched, reference>>

\* the interactor's InteractionEvent observer: update_spin_center
InteractionEvent ==
    /\ pc = "playing"
    /\ spin_center' = camera_fp
    /\ last_op' = "interaction"
    /\ repeated' = FALSE
    /\ UNCHANGED <<pvars, file, pc, error, sensor_names, loaded_frames, frames_list,
                   nframes, sensor_assemblies, text_actor, camera_fp, scene_entered,
                   last_idx, raised, dispatched, reference>>

Next ==
    \/ MainLoad
    \/ MainValidate
    \/ InitScene
    \/ SliderCallback
    \/ ZoomToNode
    \/ CameraMoved
    \/ InteractionEvent

Spec == Init /\ [][Next]_vars

\* ------------------------------------------------------------- C5 (parser)
\* The maximal runs of digits of a text, as <<first, last>> positions.
DigitRuns(s) ==
    {r \in (1..Len(s)) \X (1..Len(s)) :
        /\ r[1] <= r[2]
        /\ \A k \in r[1]..r[2] : s[k] \in Digits
        /\ (r[1] = 1 \/ s[r[1] - 1] \notin Digits)
        /\ (r[2] = Len(s) \/ s[r[2] + 1] \notin Digits)}

NthRun(s, n) ==
    CHOOSE r \in DigitRuns(s) : Cardinality({q \in DigitRuns(s) : q[1] < r[1]}) = n - 1

CommasIn(s, a, b) == Cardinality({k \in a..b : s[k] = ","})

\* Exactly four numeric tokens, separated all by commas (blanks around them
\* allowed) or all by blanks.
FourNumericTokens(s) ==
    /\ ~IsNa(s)
    /\ \A k \in 1..Len(s) : s[k] \in Digits \cup {",", " "}
    /\ Cardinality(DigitRuns(s)) = 4
    /\ \/ CommasIn(s, 1, Len(s)) = 0
       \/ /\ CommasIn(s, 1, Len(s)) = 3
          /\ \A n \in 1..3 :
                CommasIn(s, NthRun(s, n)[2] + 1, NthRun(s, n + 1)[1] - 1) = 1

TokensInOrder(s) ==
    [n \in 1..4 |-> FloatOf(SubSeq(s, NthRun(s, n)[1], NthRun(s, n)[2]))]

Parsed == ~(parsed.ok = FALSE /\ parsed.err = "pending")

\* C5: _parse_quaternion_string returns the four tokens in order exactly for
\* the texts made of four numeric tokens separated by commas or by blanks,
\* and raises for every other input (missing, empty, wrong count,
\* non-numeric token).
C5_ParseContract ==
    Parsed =>
        /\ parsed.ok <=> FourNumericTokens(raw)
        /\ parsed.ok => parsed.val = TokensInOrder(raw)
        /\ ~parsed.ok => parsed.err \in {"nan", "empty", "count", "non-numeric"}
        /\ (IsNa(raw) => ~parsed.ok /\ parsed.err = "nan")

C5_Witness ==
    /\ Parsed /\ parsed.ok
    /\ raw = <<"1", ",", "2", ",", "1", ",", "1">>
    /\ parsed.val = <<1, 2, 1, 1>>

\* ------------------------------------------------------- what a file holds
IsTabular(f) == LowerSuffix(f.suffix) \in {".csv", ".xlsx"}

IsSto(f) == LowerSuffix(f.suffix) = ".sto"

\* the columns literally prefixed Quat1_, in file order
Quat1Columns(f) == SelectSeq(f.columns, LAMBDA c : c # <<>> /\ Head(c) = "Quat1_")

\* the text after the Quat1_ prefix
SuffixOf(c) == Tail(c)

HasAllFour(f, name) ==
    \A k \in {"Quat1_", "Quat2_", "Quat3_", "Quat4_"} : HasColumn(f, <<k>> \o name)

CellOf(f, r, k, name) == f.rows[r][ColumnIndex(f, <<k>> \o name)]

\* the first populated value of column c, stripped
HasPopulated(f, c) == \E r \in 1..Len(f.rows) : ~IsNa(f.rows[r][c]) /\ Strip(f.rows[r][c]) # <<>>

FirstPopulated(f, c) ==
    LET r == CHOOSE q \in 1..Len(f.rows) :
                 /\ ~IsNa(f.rows[q][c]) /\ Strip(f.rows[q][c]) # <<>>
                 /\ \A m \in 1..(q - 1) : IsNa(f.rows[m][c]) \/ Strip(f.rows[m][c]) = <<>>
    IN  Strip(f.rows[r][c])

FourBlankSeparated(v) ==
    Cardinality({k \in 1..Len(v) : v[k] # " " /\ (k = 1 \/ v[k - 1] = " ")}) = 4

\* the STO columns the heuristic takes for sensors
StoAccepted(f, c) ==
    /\ f.columns[c] \notin {<<"time">>, <<"TIME">>}
    /\ HasPopulated(f, c)
    /\ \/ Cardinality({k \in 1..Len(FirstPopulated(f, c)) : FirstPopulated(f, c)[k] = ","}) = 3
       \/ FourBlankSeparated(FirstPopulated(f, c))

StoAcceptedColumns(f) == {c \in 1..Len(f.columns) : StoAccepted(f, c)}

StoUnparsable(f, c) == \E r \in 1..Len(f.rows) : ~FourNumericTokens(f.rows[r][c])

\* the members of a set of column numbers, in increasing order
RECURSIVE InOrder(_)
InOrder(S) ==
    IF S = {} THEN <<>>
    ELSE LET m == CHOOSE x \in S : \A y \in S : x <= y
         IN  <<m>> \o InOrder(S \ {m})

\* the sensors of a file and the number of populated frames of each
SensorIds(f) ==
    IF IsTabular(f)
    THEN {<<"tab", SuffixOf(Quat1Columns(f)[i])>> : i \in
             {j \in 1..Len(Quat1Columns(f)) : HasAllFour(f, SuffixOf(Quat1Columns(f)[j]))}}
    ELSE IF IsSto(f) /\ f.endheader
    THEN {<<"sto", f.columns[c]>> : c \in StoAcceptedColumns(f)}
    ELSE {}

CellsOf(f, r, id) ==
    IF id[1] = "tab"
    THEN {CellOf(f, r, k, id[2]) : k \in {"Quat1_", "Quat2_", "Quat3_", "Quat4_"}}
    ELSE {f.rows[r][ColumnIndex(f, id[2])]}

PopulatedFrames(f, id) ==
    Cardinality({r \in 1..Len(f.rows) : \A v \in CellsOf(f, r, id) : ~IsNa(v)})

InconsistentFrameCount(f) ==
    \E a \in SensorIds(f), b \in SensorIds(f) : PopulatedFrames(f, a) # PopulatedFrames(f, b)

\* some quaternion field of some sensor is no quaternion
MalformedField(f) ==
    \E id \in SensorIds(f), r \in 1..Len(f.rows) :
        IF id[1] = "tab"
        THEN \E v \in CellsOf(f, r, id) : IsNa(v) \/ ~IsFloat(v)
        ELSE \E v \in CellsOf(f, r, id) : ~FourNumericTokens(v)

Supported(f) == IsTabular(f) \/ IsSto(f)

Loaded == pc \in {"loaded", "scene", "playing"} \/ (pc = "exit" /\ frames_list # <<>>)

\* every row of the dataset in memory is a quaternion from_quat accepts
ValidDataset ==
    \A i \in 1..Len(frames_list) : \A r \in 1..Len(frames_list[i]) :
        ~FromQuatRaises(frames_list[i][r])

Sought == pc = "playing" /\ last_op = "seek"

\* ------------------------------------------------------------ C1 (clamping)
\* C1: after a seek to an index beyond frameCount-1 of a dataset with at least
\* one frame, the frame shown is frameCount-1 and every node has been
\* dispatched the transform of frame frameCount-1.
C1_SeekBeyondEndClamps ==
    (Sought /\ ValidDataset /\ nframes >= 1 /\ last_idx > nframes - 1) =>
        /\ text_actor = nframes - 1
        /\ Len(dispatched) = Len(sensor_assemblies)
        /\ \A i \in 1..Len(dispatched) :
              dispatched[i] = <<i - 1, NodeMatrix(i - 1, frames_list[i][nframes])>>

\* ------------------------------------------------- C2 (inconsistent counts)
\* C2: a file whose sensors differ in their number of frames fails to load
\* with InconsistentFrameCount, and playback is never started.
C2_InconsistentCountsRejected ==
    (file.exists /\ Supported(file) /\ InconsistentFrameCount(file)) =>
        pc # "playing"

\* ------------------------------------------------------ C3 (fatal loading)
\* C3: the scene is entered, frames_list assigned and a frame dispatched only
\* for a file that exists, has a supported extension, yields sensors, has
\* consistent frame counts and holds no malformed quaternion field.
C3_PlaybackOnlyAfterChecks ==
    (scene_entered \/ frames_list # <<>> \/ dispatched # <<>>) =>
        /\ file.exists
        /\ Supported(file)
        /\ SensorIds(file) # {}
        /\ ~InconsistentFrameCount(file)
        /\ ~MalformedField(file)

\* ------------------------------------------------------ C4 (empty dataset)
\* C4: a dataset with zero frames is rejected with EmptyDataset and never
\* reaches playback; when playback starts, frame 0 has been dispatched.
C4_EmptyDatasetRejected ==
    /\ (Loaded /\ \A i \in 1..Len(loaded_frames) : Len(loaded_frames[i]) = 0) =>
            ~scene_entered /\ pc # "playing"
    /\ (pc = "playing" /\ last_op = "init") =>
            /\ text_actor = 0
            /\ Len(dispatched) = Len(sensor_assemblies)

\* ----------------------------------------------------- C6 (STO heuristic)
StoBadColumns(f) == {c \in StoAcceptedColumns(f) : StoUnparsable(f, c)}

StoLoadDone == file.exists /\ IsSto(file) /\ file.endheader /\ pc # "start"

\* C6: the STO loader takes a column for a sensor exactly when its name is not
\* "time" (in any case) and its first populated value holds three commas or
\* four blank-separated tokens; it parses every row of such a column, and one
\* row that does not parse fails the load with an error naming the column.
C6_StoColumnHeuristic ==
    StoLoadDone =>
        IF StoBadColumns(file) # {}
        THEN /\ pc = "exit"
             /\ error = <<"InvalidColumn", file.columns[InOrder(StoBadColumns(file))[1]]>>
        ELSE IF StoAcceptedColumns(file) = {}
        THEN pc = "exit" /\ error[1] = "NoQuaternionColumns"
        ELSE /\ error[1] \notin {"InvalidColumn", "NoQuaternionColumns", "NoEndheader"}
             /\ sensor_names = [i \in 1..Cardinality(StoAcceptedColumns(file)) |->
                                   file.columns[InOrder(StoAcceptedColumns(file))[i]]]
             /\ Len(loaded_frames) = Len(sensor_names)
             /\ \A i \in 1..Len(loaded_frames) :
                   /\ Len(loaded_frames[i]) = Len(file.rows)
                   /\ \A r \in 1..Len(file.rows) :
                         loaded_frames[i][r] =
                             MapSeq(Num, TokensInOrder(
                                 file.rows[r][InOrder(StoAcceptedColumns(file))[i]]))

\* a column left out on its first value although its second row would match,
\* next to a column that was taken
C6_Witness ==
    /\ StoLoadDone /\ pc = "loaded"
    /\ file.columns = <<<<"imu1">>, <<"imu2">>>>
    /\ Len(file.rows) = 2
    /\ file.rows[1][1] = <<"1", ",", "0">>
    /\ FourNumericTokens(file.rows[2][1])
    /\ sensor_names = <<<<"imu2">>>>

\* ----------------------------------------------------- C7 (tabular loader)
RECURSIVE FirstAppearances(_)
\* a sequence without the later repeats of its elements
FirstAppearances(q) ==
    IF q = <<>> THEN <<>>
    ELSE LET rest == FirstAppearances(SubSeq(q, 1, Len(q) - 1))
         IN  IF \E k \in 1..(Len(q) - 1) : q[k] = q[Len(q)] THEN rest
             ELSE Append(rest, q[Len(q)])

TabSuffixes(f) == FirstAppearances(MapSeq(SuffixOf, Quat1Columns(f)))

TabLoadDone == file.exists /\ IsTabular(file) /\ pc # "start"

\* C7: the tabular loader returns one timeline per distinct suffix of the
\* Quat1_ columns, in order of first appearance and without duplicate names,
\* each row being (Quat1, Quat2, Quat3, Quat4) of that name; a name without
\* its Quat2_/Quat3_/Quat4_ column fails the load.
C7_TabularTimelines ==
    TabLoadDone =>
        IF \E i \in 1..Len(TabSuffixes(file)) : ~HasAllFour(file, TabSuffixes(file)[i])
        THEN pc = "exit" /\ error[1] = "KeyError"
        ELSE IF TabSuffixes(file) = <<>>
        THEN pc = "exit" /\ error[1] = "NoSensors"
        ELSE /\ sensor_names = TabSuffixes(file)
             /\ \A i \in 1..Len(sensor_names), j \in 1..Len(sensor_names) :
                   i # j => sensor_names[i] # sensor_names[j]
             /\ Len(loaded_frames) = Len(sensor_names)
             /\ \A i \in 1..Len(loaded_frames) :
                   /\ Len(loaded_frames[i]) = Len(file.rows)
                   /\ \A r \in 1..Len(file.rows) :
                         loaded_frames[i][r] =
                             << ToNumpy(CellOf(file, r, "Quat1_", sensor_names[i])),
                                ToNumpy(CellOf(file, r, "Quat2_", sensor_names[i])),
                                ToNumpy(CellOf(file, r, "Quat3_", sensor_names[i])),
                                ToNumpy(CellOf(file, r, "Quat4_", sensor_names[i])) >>

\* ------------------------------------------------------ C8 (idempotence)
FreshScene == [i \in 1..Len(sensor_assemblies) |-> Identity4]

\* C8: a seek dispatches what the same seek dispatches on a scene no seek has
\* touched, and a seek to the index of the seek just before it leaves the
\* node transforms, the overlay text, the spin centre and the dispatched
\* output as they are.
C8_SeekIdempotent ==
    [][ (pc = "playing" /\ last_op' = "seek") =>
            /\ dispatched' = UpdateLoop(last_idx', 1, FreshScene, <<>>).log
            /\ (~raised' => text_actor' = last_idx')
            /\ (last_op = "seek" /\ last_idx' = last_idx) =>
                   UNCHANGED <<sensor_assemblies, text_actor, spin_center, dispatched,
                               raised, pc, error>> ]_vars

\* both nodes of a two-sensor dataset dispatched by a repeated in-range seek
C8_Witness ==
    /\ Sought /\ repeated
    /\ InRange(last_idx) /\ last_idx > 0
    /\ Len(dispatched) = 2

\* -------------------------------------------------- C9 (dispatch per node)
NoneMissingAt(idx) ==
    \A i \in 1..Len(frames_list) : \A k \in 1..4 : frames_list[i][idx + 1][k] # NanElem

\* C9: after an in-range seek every node i, in dataset order, has been
\* dispatched the transform of timeline i at that frame: its rotation, the
\* translation (i x offset_spacing, 0, 0) and the last row [0,0,0,1]; the
\* identity quaternion gives the identity rotation; the spin centre is at the
\* camera's focal point; there are as many nodes as timelines.  (Stated for
\* frames that hold no missing value.)
C9_EveryNodeDispatched ==
    (Sought /\ InRange(last_idx) /\ NoneMissingAt(last_idx)) =>
        /\ Len(sensor_assemblies) = Len(frames_list)
        /\ Len(dispatched) = Len(sensor_assemblies)
        /\ spin_center = camera_fp
        /\ ~raised
        /\ \A i \in 1..Len(dispatched) :
              LET q == frames_list[i][last_idx + 1]
                  m == dispatched[i][2]
              IN  /\ dispatched[i][1] = i - 1
                  /\ sensor_assemblies[i] = m
                  /\ ~FromQuatRaises(q)
                  /\ \A a \in 1..3, b \in 1..3 : m[a][b] = AsMatrix(q)[a][b]
                  /\ <<m[1][4], m[2][4], m[3][4]>> = <<Rat(2 * (i - 1), 10), Zero, Zero>>
                  /\ m[4] = <<Zero, Zero, Zero, One>>
                  /\ (q = <<Num(1), Num(0), Num(0), Num(0)>> =>
                         \A a \in 1..3, b \in 1..3 : m[a][b] = IF a = b THEN One ELSE Zero)

\* ------------------------------------------------ C10 (out-of-range no-op)
\* C10: an out-of-range frame update sets no node transform and raises
\* nothing, the session goes on, and the node transforms are at every moment
\* those the in-range seeks alone would have produced.
C10_OutOfRangeNoOp ==
    pc = "playing" =>
        /\ sensor_assemblies = reference
        /\ (last_op = "seek" /\ ~InRange(last_idx)) => (~raised /\ dispatched = <<>>)

\* an index past the end asked of a dataset whose node shows a rotation
C10_Witness ==
    /\ Sought /\ nframes >= 1 /\ last_idx >= nframes
    /\ sensor_assemblies[1] # Identity4
    /\ text_actor = last_idx
====
